---- MODULE Spec2Model ----
(***************************************************************************)
(* Model of scripts/data-extractor/main.py: the row-by-row extractor that  *)
(* drives a copy hotkey, reads the clipboard, splits the text on tabs into *)
(* a record, presses the down key and finally dumps the records as JSON.   *)
(*                                                                         *)
(* Text is a sequence of one-character strings.  A record (a Python dict)  *)
(* is a function from field names to values.  The program position pc      *)
(* names the statement about to run; each action is one statement (or one  *)
(* group of statements without an external call between them).             *)
(***************************************************************************)
EXTENDS Integers, Sequences, FiniteSets, TLC

VARIABLES
    pc,             \* the statement of main() about to run
    row_input,      \* the text typed at the row-count prompt (line 24)
    num_rows,       \* num_rows (line 24); meaningful once the prompt parsed
    i,              \* the loop variable of line 43; -1 while unbound
    clipboard,      \* the OS clipboard text (external, shared)
    clip_src,       \* who put the clipboard's content there (see Copy)
    copied_text,    \* copied_text (line 51)
    read_src,       \* clip_src at the time of the read of line 51
    extracted_data, \* extracted_data (line 31)
    file,           \* extracted_data.json on disk
    file0,          \* the file as it was when the program started
    log,            \* the external effects issued so far, in order
    empties,        \* the 1-based iterations whose clipboard read was empty
    intr_at,        \* the pc at which the stop signal arrived, or "none"
    at_interrupt    \* extracted_data as it was when the stop signal arrived

vars == << pc, row_input, num_rows, i, clipboard, clip_src, copied_text,
           read_src, extracted_data, file, file0, log, empties, intr_at,
           at_interrupt >>

(***************************************************************************)
(* Bounds of the model.                                                    *)
(***************************************************************************)
MaxRows == 3        \* the largest row count typed at the prompt
MaxInputLen == 2    \* the longest row-count input
MaxLen == 4         \* the longest clipboard text in the parsing model

TAB == "\t"
SPACE == " "
WhiteSpace == {SPACE, TAB}      \* what str.strip() removes, of the alphabet
Alphabet == {"a", SPACE, TAB}   \* the characters of the parsing model

RECURSIVE TextsOver(_, _)
TextsOver(A, n) ==
    IF n = 0 THEN {<< >>}
    ELSE LET shorter == TextsOver(A, n - 1)
         IN  shorter \cup {Append(t, c) : t \in shorter, c \in A}

\* the clipboard texts of the parsing model
Texts == TextsOver(Alphabet, MaxLen)
\* the clipboard texts of the loop model: nothing, a one-column row and a
\* two-column row
ClipTexts == { << >>, << "a" >>, << "a", TAB, "a" >> }

(***************************************************************************)
(* int(input(...)), line 24.  Python's int() takes an optional sign and    *)
(* one or more decimal digits; anything else raises ValueError.            *)
(***************************************************************************)
Digits == {"0", "1", "2", "3", "4", "5", "6", "7", "8", "9"}
DigitVal(c) ==
    CASE c = "0" -> 0 [] c = "1" -> 1 [] c = "2" -> 2 [] c = "3" -> 3
      [] c = "4" -> 4 [] c = "5" -> 5 [] c = "6" -> 6 [] c = "7" -> 7
      [] c = "8" -> 8 [] c = "9" -> 9

RECURSIVE DigitsValue(_, _)
DigitsValue(s, acc) ==
    IF s = << >> THEN acc
    ELSE DigitsValue(Tail(s), 10 * acc + DigitVal(Head(s)))

AllDigits(s) == s # << >> /\ \A k \in 1..Len(s) : s[k] \in Digits

\* a parse that falls back to zero rows instead of raising
ParseIntDefaultZero(s) ==
    IF AllDigits(s) THEN [ok |-> TRUE, value |-> DigitsValue(s, 0)]
    ELSE [ok |-> TRUE, value |-> 0]

\* [ok |-> FALSE] stands for ValueError
ParseInt(s) ==
    IF AllDigits(s) THEN [ok |-> TRUE, value |-> DigitsValue(s, 0)]
    ELSE IF s # << >> /\ Head(s) = "-" /\ AllDigits(Tail(s))
         THEN [ok |-> TRUE, value |-> 0 - DigitsValue(Tail(s), 0)]
         ELSE [ok |-> FALSE, value |-> 0]

InputChars == {"-", "x"} \cup {c \in Digits : DigitVal(c) <= MaxRows}
RowInputs ==
    {s \in TextsOver(InputChars, MaxInputLen) :
        ParseInt(s).ok => ParseInt(s).value <= MaxRows}

(***************************************************************************)
(* The pure pieces of the loop body.                                       *)
(***************************************************************************)
\* a test that also rejects what the last copy did not put there
TruthyAndFresh(s) == Len(s) > 0 /\ read_src = "fresh"

\* `if copied_text:` (line 53)
Truthy(s) == Len(s) > 0

\* copied_text.split('\t') (line 55)
RECURSIVE SplitAcc(_, _, _, _)
SplitAcc(t, j, cur, acc) ==
    IF j > Len(t) THEN Append(acc, cur)
    ELSE IF t[j] = TAB THEN SplitAcc(t, j + 1, << >>, Append(acc, cur))
         ELSE SplitAcc(t, j + 1, Append(cur, t[j]), acc)
Split(t) == SplitAcc(t, 1, << >>, << >>)

\* str.strip() (lines 65, 67, 69)
RECURSIVE LStrip(_)
LStrip(s) ==
    IF s # << >> /\ Head(s) \in WhiteSpace THEN LStrip(Tail(s)) ELSE s
RECURSIVE RStrip(_)
RStrip(s) ==
    IF s # << >> /\ s[Len(s)] \in WhiteSpace
    THEN RStrip(SubSeq(s, 1, Len(s) - 1)) ELSE s
\* a strip that forgets the trailing side
StripLeadingOnly(s) == LStrip(s)
Strip(s) == RStrip(LStrip(s))

\* row numbers counted from zero
RowNumberZeroBased(k) == k
\* row numbers taken from the output position
RowNumberByPosition(k) == Len(extracted_data) + 1

\* "row_number": i + 1 (line 59)
RowNumber(k) == k + 1

\* row_data (lines 55-69) for loop index k and clipboard text
RowData(k, text) ==
    LET columns == Split(text)
        base == ("row_number" :> RowNumber(k)) @@ ("raw_content" :> text)
        e == IF Len(columns) >= 1
             THEN base @@ ("english_name" :> Strip(columns[1])) ELSE base
        a == IF Len(columns) >= 2
             THEN e @@ ("arabic_name" :> Strip(columns[2])) ELSE e
    IN  IF Len(columns) >= 3 THEN a @@ ("id" :> Strip(columns[3])) ELSE a

\* a range that includes its end
InRangeInclusive(k, n) == k >= 0 /\ k <= n

\* range(num_rows) yields k (line 43)
InRange(k, n) == k >= 0 /\ k < n

\* the down key after every row, the last included
NotPastLast(k, n) == k < n
\* the down key withheld one row early
NotLastButOne(k, n) == k < n - 2

\* `if i < num_rows - 1` (line 77)
NotLast(k, n) == k < n - 1

\* json.dump(extracted_data, f, ...) (line 86): the file holds the array
Dumped(data) == [state |-> "written", records |-> data]

(***************************************************************************)
(* Program positions.                                                      *)
(***************************************************************************)
\* inside the try block (lines 43-79): KeyboardInterrupt is caught here
TryPcs == {"for", "copy", "settle", "paste", "parse", "advance", "wait"}
\* outside it: KeyboardInterrupt propagates out of main()
OutsidePcs == {"ready", "ask", "countdown", "click", "focused",
               "handler", "open", "dump", "report"}
LivePcs == TryPcs \cup OutsidePcs

\* `except Exception`, which KeyboardInterrupt is not
CaughtByExceptException(p) == FALSE

\* `except KeyboardInterrupt` (lines 42, 81) covers position p
Caught(p) == p \in TryPcs

\* extracted_data.json before the run: missing, or left by an earlier run
InitialFiles ==
    { [state |-> "absent", records |-> << >>],
      [state |-> "previous", records |-> << RowData(0, << "a" >>) >>] }

Effect(ev, iter) == << ev, iter >>

Init ==
    /\ pc = "ready"
    /\ row_input = << >>
    /\ num_rows = 0
    /\ i = -1
    /\ clipboard \in ClipTexts
    /\ clip_src = "stale"
    /\ copied_text = << >>
    /\ read_src = "stale"
    /\ extracted_data = << >>
    /\ file0 \in InitialFiles
    /\ file = file0
    /\ log = << >>
    /\ empties = {}
    /\ intr_at = "none"
    /\ at_interrupt = << >>

(***************************************************************************)
(* The statements of main().                                               *)
(***************************************************************************)
\* input("Press Enter ...") (line 20)
Ready ==
    /\ pc = "ready"
    /\ pc' = "ask"
    /\ UNCHANGED << row_input, num_rows, i, clipboard, clip_src, copied_text,
                    read_src, extracted_data, file, file0, log, empties,
                    intr_at, at_interrupt >>

\* num_rows = int(input(...)), or "Invalid number. Exiting." (lines 23-27)
Ask ==
    /\ pc = "ask"
    /\ \E s \in RowInputs :
          /\ row_input' = s
          /\ IF ParseInt(s).ok
             THEN num_rows' = ParseInt(s).value /\ pc' = "countdown"
             ELSE num_rows' = num_rows /\ pc' = "invalid"
    /\ UNCHANGED << i, clipboard, clip_src, copied_text, read_src,
                    extracted_data, file, file0, log, empties, intr_at,
                    at_interrupt >>

\* extracted_data = []; time.sleep(3) (lines 30-35)
Countdown ==
    /\ pc = "countdown"
    /\ extracted_data' = << >>
    /\ pc' = "click"
    /\ UNCHANGED << row_input, num_rows, i, clipboard, clip_src, copied_text,
                    read_src, file, file0, log, empties, intr_at,
                    at_interrupt >>

\* pyautogui.click() (lines 38-39)
Click ==
    /\ pc = "click"
    /\ log' = Append(log, Effect("click", 0))
    /\ pc' = "focused"
    /\ UNCHANGED << row_input, num_rows, i, clipboard, clip_src, copied_text,
                    read_src, extracted_data, file, file0, empties, intr_at,
                    at_interrupt >>

\* time.sleep(0.5) (line 40)
Focused ==
    /\ pc = "focused"
    /\ pc' = "for"
    /\ UNCHANGED << row_input, num_rows, i, clipboard, clip_src, copied_text,
                    read_src, extracted_data, file, file0, log, empties,
                    intr_at, at_interrupt >>

\* for i in range(num_rows) (line 43): bind the next i, or leave the loop
ForStep ==
    /\ pc = "for"
    /\ IF InRange(i + 1, num_rows)
       THEN i' = i + 1 /\ pc' = "copy"
       ELSE i' = i /\ pc' = "open"
    /\ UNCHANGED << row_input, num_rows, clipboard, clip_src, copied_text,
                    read_src, extracted_data, file, file0, log, empties,
                    intr_at, at_interrupt >>

\* pyautogui.hotkey('ctrl', 'c') (lines 44-47).  The focused window either
\* puts a text of its choosing on the clipboard ("fresh") or does nothing,
\* so that the clipboard keeps what it held before the hotkey ("stale").
Copy ==
    /\ pc = "copy"
    /\ log' = Append(log, Effect("copy", i + 1))
    /\ \/ \E t \in ClipTexts : clipboard' = t /\ clip_src' = "fresh"
       \/ clipboard' = clipboard /\ clip_src' = "stale"
    /\ pc' = "settle"
    /\ UNCHANGED << row_input, num_rows, i, copied_text, read_src,
                    extracted_data, file, file0, empties, intr_at,
                    at_interrupt >>

\* time.sleep(0.1) (line 48)
Settle ==
    /\ pc = "settle"
    /\ pc' = "paste"
    /\ UNCHANGED << row_input, num_rows, i, clipboard, clip_src, copied_text,
                    read_src, extracted_data, file, file0, log, empties,
                    intr_at, at_interrupt >>

\* copied_text = pyperclip.paste() (line 51)
Paste ==
    /\ pc = "paste"
    /\ copied_text' = clipboard
    /\ read_src' = clip_src
    /\ log' = Append(log, Effect("read", i + 1))
    /\ empties' = IF clipboard = << >> THEN empties \cup {i + 1} ELSE empties
    /\ pc' = "parse"
    /\ UNCHANGED << row_input, num_rows, i, clipboard, clip_src,
                    extracted_data, file, file0, intr_at, at_interrupt >>

\* if copied_text: ... append ... else: warn (lines 53-74)
ParseStep ==
    /\ pc = "parse"
    /\ IF Truthy(copied_text)
       THEN /\ extracted_data' = Append(extracted_data, RowData(i, copied_text))
            /\ log' = Append(log, Effect("append", i + 1))
       ELSE /\ extracted_data' = extracted_data
            /\ log' = Append(log, Effect("warn", i + 1))
    /\ pc' = "advance"
    /\ UNCHANGED << row_input, num_rows, i, clipboard, clip_src, copied_text,
                    read_src, file, file0, empties, intr_at, at_interrupt >>

\* if i < num_rows - 1: pyautogui.press('down') (lines 77-78)
Advance ==
    /\ pc = "advance"
    /\ IF NotLast(i, num_rows)
       THEN log' = Append(log, Effect("down", i + 1)) /\ pc' = "wait"
       ELSE log' = log /\ pc' = "for"
    /\ UNCHANGED << row_input, num_rows, i, clipboard, clip_src, copied_text,
                    read_src, extracted_data, file, file0, empties, intr_at,
                    at_interrupt >>

\* time.sleep(0.1) (line 79)
Wait ==
    /\ pc = "wait"
    /\ pc' = "for"
    /\ UNCHANGED << row_input, num_rows, i, clipboard, clip_src, copied_text,
                    read_src, extracted_data, file, file0, log, empties,
                    intr_at, at_interrupt >>

\* a handler that returns instead of falling through to the save
HandlerReturns ==
    /\ pc = "handler"
    /\ pc' = "done"
    /\ UNCHANGED << row_input, num_rows, i, clipboard, clip_src, copied_text,
                    read_src, extracted_data, file, file0, log, empties,
                    intr_at, at_interrupt >>

\* except KeyboardInterrupt: print(...) (lines 81-82)
Handler ==
    /\ pc = "handler"
    /\ pc' = "open"
    /\ UNCHANGED << row_input, num_rows, i, clipboard, clip_src, copied_text,
                    read_src, extracted_data, file, file0, log, empties,
                    intr_at, at_interrupt >>

\* open(output_file, 'w', ...) (line 85): creates or truncates the file
Open ==
    /\ pc = "open"
    /\ file' = [state |-> "truncated", records |-> << >>]
    /\ pc' = "dump"
    /\ UNCHANGED << row_input, num_rows, i, clipboard, clip_src, copied_text,
                    read_src, extracted_data, file0, log, empties, intr_at,
                    at_interrupt >>

\* json.dump(extracted_data, f, ...) and the close of the file (line 86)
Dump ==
    /\ pc = "dump"
    /\ file' = Dumped(extracted_data)
    /\ pc' = "report"
    /\ UNCHANGED << row_input, num_rows, i, clipboard, clip_src, copied_text,
                    read_src, extracted_data, file0, log, empties, intr_at,
                    at_interrupt >>

\* the closing prints (lines 88-91)
Report ==
    /\ pc = "report"
    /\ pc' = "done"
    /\ UNCHANGED << row_input, num_rows, i, clipboard, clip_src, copied_text,
                    read_src, extracted_data, file, file0, log, empties,
                    intr_at, at_interrupt >>

(***************************************************************************)
(* The environment.                                                        *)
(***************************************************************************)
\* Ctrl+C in the terminal (line 18): KeyboardInterrupt is raised at the
\* statement about to run, which therefore does not run.  Inside the try
\* block control passes to the handler; elsewhere it leaves main().  The
\* operator's stop request is delivered once in a run.
Interrupt ==
    /\ pc \in LivePcs
    /\ intr_at = "none"
    /\ intr_at' = pc
    /\ at_interrupt' = extracted_data
    /\ pc' = IF Caught(pc) THEN "handler" ELSE "traceback"
    /\ UNCHANGED << row_input, num_rows, i, clipboard, clip_src, copied_text,
                    read_src, extracted_data, file, file0, log, empties >>

\* another actor (the user, another program) overwrites the clipboard
ForeignWrite ==
    /\ pc \in LivePcs
    /\ \E t \in ClipTexts : clipboard' = t
    /\ clip_src' = "foreign"
    /\ UNCHANGED << pc, row_input, num_rows, i, copied_text, read_src,
                    extracted_data, file, file0, log, empties, intr_at,
                    at_interrupt >>

\* the statements that need no operator at the keyboard
Proceed ==
    \/ Countdown \/ Click \/ Focused
    \/ ForStep \/ Copy \/ Settle \/ Paste \/ ParseStep \/ Advance \/ Wait
    \/ Handler \/ Open \/ Dump \/ Report

Next == Ready \/ Ask \/ Proceed \/ Interrupt \/ ForeignWrite

Spec == Init /\ [][Next]_vars

\* Every statement returns: the sleeps are finite and the calls come back.
FairSpec == Spec /\ WF_vars(Proceed)

(***************************************************************************)
(* The parsing model: one planned row, the copy hotkey already issued, and *)
(* any text of the alphabet up to MaxLen on the clipboard.  The run reads  *)
(* it, builds the record and saves.                                        *)
(***************************************************************************)
InitParse ==
    /\ pc = "paste"
    /\ row_input = << "1" >>
    /\ num_rows = 1
    /\ i = 0
    /\ clipboard \in Texts
    /\ clip_src = "fresh"
    /\ copied_text = << >>
    /\ read_src = "stale"
    /\ extracted_data = << >>
    /\ file0 \in InitialFiles
    /\ file = file0
    /\ log = << Effect("click", 0), Effect("copy", 1) >>
    /\ empties = {}
    /\ intr_at = "none"
    /\ at_interrupt = << >>

NextParse == Paste \/ ParseStep \/ Advance \/ ForStep \/ Open \/ Dump \/ Report

SpecParse == InitParse /\ [][NextParse]_vars

(***************************************************************************)
(* Vocabulary of the properties.                                           *)
(***************************************************************************)
Positions(ev) == {p \in DOMAIN log : log[p][1] = ev}
Count(ev) == Cardinality(Positions(ev))
Has(ev, k) == \E p \in DOMAIN log : log[p] = << ev, k >>
\* the position in the log of the n-th effect of kind ev
NthPos(ev, n) ==
    CHOOSE p \in Positions(ev) :
        Cardinality({q \in Positions(ev) : q <= p}) = n
RowNumbers == {extracted_data[p]["row_number"] : p \in DOMAIN extracted_data}
Uninterrupted == intr_at = "none"
\* the loop was stopped by the stop signal
LoopInterrupted ==
    intr_at \in {"for", "copy", "settle", "paste", "parse", "advance", "wait"}
\* iteration k has appended its record or printed its warning
Decided(k) == Has("append", k) \/ Has("warn", k)
\* iteration k has run every step it has
Complete(k) ==
    /\ Has("copy", k)
    /\ Has("read", k)
    /\ Decided(k)
    /\ k < num_rows => Has("down", k)
\* every read so far returned the same non-empty text
FixedNonEmptyClipboard ==
    /\ empties = {}
    /\ \E t \in ClipTexts \ {<< >>} :
          \A p \in DOMAIN extracted_data : extracted_data[p]["raw_content"] = t

(***************************************************************************)
(* C1.  An uninterrupted run for N >= 0 rows in which every clipboard read *)
(* returns the same non-empty text ends with exactly N records, and the    *)
(* record at position k has row_number k.                                  *)
(***************************************************************************)
C1_FixedClipboardYieldsNRows ==
    (pc = "done" /\ Uninterrupted /\ num_rows >= 0 /\ FixedNonEmptyClipboard)
    => /\ Len(extracted_data) = num_rows
       /\ Count("read") = num_rows
       /\ \A k \in DOMAIN extracted_data : extracted_data[k]["row_number"] = k

C1_Witness ==
    /\ pc = "done"
    /\ Uninterrupted
    /\ FixedNonEmptyClipboard
    /\ num_rows = MaxRows
    /\ Len(extracted_data) = MaxRows
    /\ extracted_data[MaxRows]["row_number"] = MaxRows

(***************************************************************************)
(* C2.  When the stop signal interrupts the loop, the run does not abort:  *)
(* it goes on to the save, and the file it leaves holds exactly the        *)
(* records appended before the interrupt, in order.                        *)
(***************************************************************************)
C2_InterruptSavesPartialResults ==
    LoopInterrupted
    => /\ pc \in {"handler", "open", "dump", "report", "done"}
       /\ Len(at_interrupt) = Count("append")
       /\ pc \in {"report", "done"}
            => file = [state |-> "written", records |-> at_interrupt]

C2_Witness ==
    /\ pc = "done"
    /\ intr_at = "copy"
    /\ num_rows = 3
    /\ Len(at_interrupt) = 2
    /\ file0.state = "previous"
    /\ file.state = "written"
    /\ file.records = at_interrupt

(***************************************************************************)
(* C3.  From every point of the loop, whether it runs its N iterations or  *)
(* is interrupted early, the run eventually reaches the save of lines      *)
(* 85-86: no way out of the loop ends the run without saving.              *)
(***************************************************************************)
C3_LoopAlwaysReachesSave == (pc \in TryPcs) ~> (pc = "open")

C3_Witness ==
    /\ pc = "open"
    /\ LoopInterrupted
    /\ num_rows = 3
    /\ Len(extracted_data) = 1

(***************************************************************************)
(* C4.  An iteration whose read is empty appends nothing and the loop goes *)
(* on; a record carries the index of the iteration that made it.  So in    *)
(* every state the row numbers increase strictly, lie in 1..N, and among   *)
(* the iterations decided so far miss exactly the empty ones.              *)
(***************************************************************************)
C4_RowNumbersAreIterationIndices ==
    /\ \A p, q \in DOMAIN extracted_data :
          p < q => extracted_data[p]["row_number"] < extracted_data[q]["row_number"]
    /\ RowNumbers \subseteq 1..num_rows
    /\ \A k \in RowNumbers : Decided(k)
    /\ \A k \in 1..MaxRows : Decided(k) => (k \in RowNumbers <=> k \notin empties)
    /\ (pc = "done" /\ Uninterrupted /\ num_rows >= 0)
          => \A k \in 1..num_rows : Decided(k)

C4_Witness ==
    /\ pc = "done"
    /\ num_rows = 3
    /\ empties = {2}
    /\ Len(extracted_data) = 2
    /\ extracted_data[2]["row_number"] = 3

(***************************************************************************)
(* What C5 expects of a text, stated by positions rather than by a scan:   *)
(* the segments lie between consecutive tabs, and trimming keeps the span  *)
(* from the first to the last character that is not white space.           *)
(***************************************************************************)
TabPositions(t) == {j \in 1..Len(t) : t[j] = TAB}
SegmentCount(t) == Cardinality(TabPositions(t)) + 1
NthTab(t, n) ==
    CHOOSE p \in TabPositions(t) :
        Cardinality({q \in TabPositions(t) : q <= p}) = n
Segment(t, n) ==
    LET from == IF n = 1 THEN 1 ELSE NthTab(t, n - 1) + 1
        to == IF n = SegmentCount(t) THEN Len(t) ELSE NthTab(t, n) - 1
    IN  SubSeq(t, from, to)
Trimmed(s) ==
    LET keep == {j \in 1..Len(s) : s[j] \notin WhiteSpace}
    IN  IF keep = {} THEN << >>
        ELSE SubSeq(s, CHOOSE a \in keep : \A b \in keep : a <= b,
                       CHOOSE a \in keep : \A b \in keep : a >= b)
ExpectedFields(t) ==
    {"row_number", "raw_content", "english_name"}
        \cup (IF SegmentCount(t) >= 2 THEN {"arabic_name"} ELSE {})
        \cup (IF SegmentCount(t) >= 3 THEN {"id"} ELSE {})

(***************************************************************************)
(* C5.  A non-empty clipboard text of k tab-separated segments is always   *)
(* recorded, with row_number and the text verbatim as raw_content, with    *)
(* english_name, arabic_name (k >= 2) and id (k >= 3) equal to the trimmed *)
(* first, second and third segment, and with no other field.               *)
(***************************************************************************)
C5_RecordFieldsFollowSegments ==
    pc \in {"advance", "for", "open", "dump", "report", "done"}
    => IF copied_text = << >>
       THEN extracted_data = << >>
       ELSE /\ Len(extracted_data) = 1
            /\ LET r == extracted_data[1]
                   t == copied_text
               IN  /\ DOMAIN r = ExpectedFields(t)
                   /\ r["row_number"] = 1
                   /\ r["raw_content"] = t
                   /\ r["english_name"] = Trimmed(Segment(t, 1))
                   /\ SegmentCount(t) >= 2
                        => r["arabic_name"] = Trimmed(Segment(t, 2))
                   /\ SegmentCount(t) >= 3
                        => r["id"] = Trimmed(Segment(t, 3))

C5_Witness ==
    /\ pc = "done"
    /\ copied_text = << SPACE, TAB, "a", SPACE >>
    /\ Len(extracted_data) = 1
    /\ DOMAIN extracted_data[1] =
          {"row_number", "raw_content", "english_name", "arabic_name"}
    /\ extracted_data[1]["english_name"] = << >>
    /\ extracted_data[1]["arabic_name"] = << "a" >>
    /\ file.records = extracted_data

\* an optional minus sign and then one or more digits
LooksLikeInt(s) ==
    \E sign \in {0, 1} :
        /\ Len(s) > sign
        /\ sign = 1 => s[1] = "-"
        /\ \A k \in (sign + 1)..Len(s) : s[k] \in Digits
\* the row-count prompt has been answered
Answered == pc \notin {"ready", "ask"} /\ intr_at \notin {"ready", "ask"}


(***************************************************************************)
(* C6.  When the row-count input is not an integer literal the program     *)
(* exits at once: no click, hotkey, key press or clipboard read has been   *)
(* issued and the output file is as it was.                                *)
(***************************************************************************)
C6_InvalidCountDoesNoWork ==
    (Answered /\ ~LooksLikeInt(row_input))
    => /\ pc = "invalid"
       /\ log = << >>
       /\ file = file0
       /\ extracted_data = << >>

C6_Witness ==
    /\ pc = "invalid"
    /\ row_input = << "x", "1" >>
    /\ file0.state = "previous"
    /\ file = file0
    /\ log = << >>

\* the steps iteration k has run are a prefix of copy, read, outcome, down
StepsInOrder(k) ==
    /\ Has("read", k) => Has("copy", k)
    /\ Decided(k) => Has("read", k)
    /\ Has("down", k) => Decided(k)


(***************************************************************************)
(* C7, as stated.  The stop signal is acted on only between iterations:    *)
(* when the loop stops because of it, every iteration that was started     *)
(* (its copy hotkey was issued) has run all of its steps.                  *)
(***************************************************************************)
C7_Original_InterruptOnlyAtBoundaries ==
    LoopInterrupted => \A k \in 1..MaxRows : Has("copy", k) => Complete(k)

(***************************************************************************)
(* C7, amended.  The stop signal is acted on at whichever statement of the *)
(* loop is about to run.  When the loop stops because of it, every         *)
(* iteration before the one in progress has run all of its steps, the one  *)
(* in progress has run a prefix of its steps in order (copy, read, append  *)
(* or warning, move-down), and nothing is appended afterwards.             *)
(***************************************************************************)
C7_InterruptLeavesPrefixOfIteration ==
    LoopInterrupted
    => /\ intr_at \in TryPcs
       /\ \A k \in 1..i : Complete(k)
       /\ i >= 0 => StepsInOrder(i + 1)
       /\ \A k \in (i + 2)..MaxRows : ~Has("copy", k)
       /\ extracted_data = at_interrupt

C7_Witness ==
    /\ pc = "handler"
    /\ intr_at = "paste"
    /\ i = 1
    /\ Complete(1)
    /\ Has("copy", 2)
    /\ ~Has("read", 2)

(***************************************************************************)
(* C8.  In an uninterrupted run for N >= 1 rows the down key is pressed    *)
(* after every iteration but the last, empty ones included: N - 1 presses, *)
(* the j-th between the j-th and the (j+1)-th copy, none after the N-th.   *)
(***************************************************************************)
C8_DownBetweenCopies ==
    (pc = "done" /\ Uninterrupted /\ num_rows >= 1)
    => /\ Count("copy") = num_rows
       /\ Count("down") = num_rows - 1
       /\ \A j \in 1..(num_rows - 1) :
             /\ NthPos("copy", j) < NthPos("down", j)
             /\ NthPos("down", j) < NthPos("copy", j + 1)
       /\ \A p \in Positions("down") : p < NthPos("copy", num_rows)

C8_Witness ==
    /\ pc = "done"
    /\ Uninterrupted
    /\ num_rows = 3
    /\ empties = {1, 2}
    /\ Count("down") = 2
    /\ Has("warn", 2)
    /\ Has("down", 2)

(***************************************************************************)
(* C9.  The loop does not detect a clipboard race: a non-empty text read   *)
(* in iteration i that another actor wrote after the copy, or that the     *)
(* copy left from before, is appended as the record of iteration i with    *)
(* that text as raw_content, and no warning is printed.                    *)
(***************************************************************************)
C9_RaceSilentlyAccepted ==
    [][ (pc = "parse" /\ pc' # "parse" /\ pc' # "handler"
            /\ read_src \in {"stale", "foreign"} /\ copied_text # << >>)
        => /\ Len(extracted_data') = Len(extracted_data) + 1
           /\ extracted_data'[Len(extracted_data')]["row_number"] = i + 1
           /\ extracted_data'[Len(extracted_data')]["raw_content"] = copied_text
           /\ SubSeq(extracted_data', 1, Len(extracted_data)) = extracted_data
           /\ log' = Append(log, << "append", i + 1 >>) ]_vars

C9_Witness ==
    /\ pc = "advance"
    /\ i = 1
    /\ read_src = "foreign"
    /\ copied_text = << "a", TAB, "a" >>
    /\ Len(extracted_data) = 2
    /\ extracted_data[2]["row_number"] = 2
    /\ extracted_data[2]["raw_content"] = copied_text
    /\ ~Has("warn", 2)

(***************************************************************************)
(* C10.  For a row count N <= 0 the program clicks once, runs no iteration *)
(* (no copy, no read, no down key) and still writes the output file, which *)
(* then holds an empty sequence whatever it held before.                   *)
(***************************************************************************)
C10_NoRowsStillWritesEmptyFile ==
    num_rows <= 0
    => /\ log \in { << >>, << << "click", 0 >> >> }
       /\ i = -1
       /\ pc \in {"for", "handler", "open", "dump", "report", "done"}
            => log = << << "click", 0 >> >>
       /\ pc \in {"report", "done"}
            => file = [state |-> "written", records |-> << >>]

C10_Witness ==
    /\ pc = "done"
    /\ num_rows < 0
    /\ Uninterrupted
    /\ file0.state = "previous"
    /\ file0.records # << >>
    /\ file = [state |-> "written", records |-> << >>]
    /\ log = << << "click", 0 >> >>

====
